---- MODULE Spec2Model ----
(***************************************************************************)
(* A model of the xiaohongshu scrapers: the share-text resolver            *)
(* (extract_xhs_url, in its three variants), clean_url, the meta-tag       *)
(* extractor (extract_content) and the scrape pipelines with their image   *)
(* downloads.                                                              *)
(*                                                                         *)
(* A string is a sequence of characters, a character a one-character       *)
(* TLA+ string; a code point outside ASCII is written "U+<hex>".           *)
(***************************************************************************)
EXTENDS Integers, Sequences, FiniteSets, TLC

\* ------------------------------------------------------------------ bounds

\* a share text of the resolver specification is made of at most MaxSegs
\* segments of Vocab
MaxSegs == 3

\* a URL given to clean_url is made of at most MaxUrlSegs segments of UrlVocab
MaxUrlSegs == 4

\* a page holds at most MaxMetas meta tags
MaxMetas == 1

\* ------------------------------------------------------- characters, str

LowerSeq ==
  <<"a","b","c","d","e","f","g","h","i","j","k","l","m",
    "n","o","p","q","r","s","t","u","v","w","x","y","z">>

UpperSeq ==
  <<"A","B","C","D","E","F","G","H","I","J","K","L","M",
    "N","O","P","Q","R","S","T","U","V","W","X","Y","Z">>

Digits == {"0","1","2","3","4","5","6","7","8","9"}

Range(s) == {s[i] : i \in 1..Len(s)}

\* F applied to the value of x, where x is evaluated once
Once(x, F(_)) == CHOOSE r \in { F(v) : v \in {x} } : TRUE

\* the character class [a-zA-Z0-9]
Alnum == Range(LowerSeq) \cup Range(UpperSeq) \cup Digits

\* the character class \s, for the characters the model uses
Whitespace == {" ", "\t", "\n"}

\* the character class [\U0001F300-\U0001F9FF], for the code points the model uses
EmojiRange == {"U+1F300", "U+1F606", "U+1F9FF"}

\* str.lower() of one character
LowerChar(c) ==
  IF \E i \in 1..Len(UpperSeq) : UpperSeq[i] = c
  THEN LowerSeq[CHOOSE i \in 1..Len(UpperSeq) : UpperSeq[i] = c]
  ELSE c

\* str.lower()
lower(s) == [i \in 1..Len(s) |-> LowerChar(s[i])]

\* s[i:] starts with sub  (i is 1-based)
StartsAt(s, i, sub) ==
  /\ i >= 1
  /\ i + Len(sub) - 1 <= Len(s)
  /\ \A k \in 1..Len(sub) : s[i + k - 1] = sub[k]

\* sub in s
Contains(s, sub) == \E i \in 1..(Len(s) - Len(sub) + 1) : StartsAt(s, i, sub)

\* s.find(sub) + 1: the first position where sub occurs, 0 when it does not
Find(s, sub) ==
  IF Contains(s, sub)
  THEN CHOOSE i \in 1..(Len(s) - Len(sub) + 1) :
         /\ StartsAt(s, i, sub)
         /\ \A j \in 1..(i - 1) : ~StartsAt(s, j, sub)
  ELSE 0

\* s[i-1:] (1-based i), the empty string when i is past the end
From(s, i) == SubSeq(s, i, Len(s))

RECURSIVE split(_, _)
\* str.split(sep)
split(s, sep) ==
  Once(s, LAMBDA t :
    Once(Find(t, sep), LAMBDA i :
      IF i = 0 THEN <<t>>
      ELSE <<SubSeq(t, 1, i - 1)>> \o split(From(t, i + Len(sep)), sep)))

\* str.rsplit(sep, 1)[0]: what a query strip from the right would keep
RECURSIVE RSplitHead(_, _)
RSplitHead(s, sep) ==
  LET i == Find(s, sep) IN
  IF i = 0 THEN s
  ELSE LET rest == From(s, i + Len(sep)) IN
       IF Contains(rest, sep)
       THEN SubSeq(s, 1, i - 1) \o sep \o RSplitHead(rest, sep)
       ELSE SubSeq(s, 1, i - 1)

\* the length of the longest prefix of s[i-1:] made of characters of class
RECURSIVE SpanLen(_, _, _)
SpanLen(s, i, class) ==
  IF i <= Len(s) /\ s[i] \in class THEN 1 + SpanLen(s, i + 1, class) ELSE 0

\* the length of the longest prefix of s[i-1:] made of characters outside stop
RECURSIVE SpanLenNot(_, _, _)
SpanLenNot(s, i, stop) ==
  IF i <= Len(s) /\ s[i] \notin stop THEN 1 + SpanLenNot(s, i + 1, stop) ELSE 0

RECURSIVE Flatten(_)
\* ''.join(parts)
Flatten(parts) ==
  IF parts = <<>> THEN <<>> ELSE Head(parts) \o Flatten(Tail(parts))

\* ------------------------------------------------------------ literals

EXPLORE == <<"e","x","p","l","o","r","e","/">>

QMARK == <<"?">>

\* 'http://xhslink.com/'
XHSLINK_PREFIX ==
  <<"h","t","t","p",":","/","/","x","h","s","l","i","n","k",".","c","o","m","/">>

\* 'https://www.xiaohongshu.com/explore/'
EXPLORE_PREFIX ==
  <<"h","t","t","p","s",":","/","/","w","w","w",".",
    "x","i","a","o","h","o","n","g","s","h","u",".","c","o","m","/">> \o EXPLORE

\* 'https://www.xiaohongshu.com/discovery/item/'
DISCOVERY_PREFIX ==
  <<"h","t","t","p","s",":","/","/","w","w","w",".",
    "x","i","a","o","h","o","n","g","s","h","u",".","c","o","m","/",
    "d","i","s","c","o","v","e","r","y","/","i","t","e","m","/">>

\* ------------------------------------------------------------ clean_url

\* url.split('?')[0], as a right-hand strip would do it
StripQueryFromRight(s) == RSplitHead(s, QMARK)

\* (...).split('?')[0]
StripQuery(s) == split(s, QMARK)[1]

\* clean_url: 'explore/' in url -> prefix + 'explore/' + note id without query
clean_url(url) ==
  IF Contains(url, EXPLORE)
  THEN LET base_url == split(url, EXPLORE)[1] \o EXPLORE
           note_id  == StripQuery(split(url, EXPLORE)[2])
       IN base_url \o note_id
  ELSE url

\* --------------------------------------------------- the resolver's regexes

\* share_text.replace('@', '') and re.sub(r'[\U0001F300-\U0001F9FF]', '', ...)
strip_mentions_emoji(text) ==
  SelectSeq(text, LAMBDA c : c # "@" /\ c \notin EmojiRange)

\* the character class [a-zA-Z0-9/]
ShortPathChars == Alnum \cup {"/"}

\* position i starts a match of r'http://xhslink\.com/[a-zA-Z0-9/]+'
XhslinkAt(text, i) ==
  /\ StartsAt(text, i, XHSLINK_PREFIX)
  /\ SpanLen(text, i + Len(XHSLINK_PREFIX), ShortPathChars) >= 1

\* where re.search(xhslink_pattern, text) matches: 0 when it does not
xhslink_pos(text) ==
  IF \E i \in 1..Len(text) : XhslinkAt(text, i)
  THEN CHOOSE i \in 1..Len(text) :
         XhslinkAt(text, i) /\ \A j \in 1..(i - 1) : ~XhslinkAt(text, j)
  ELSE 0

\* re.search(xhslink_pattern, text).group(0), <<>> when there is no match
xhslink_match(text) ==
  LET i == xhslink_pos(text) IN
  IF i = 0 THEN <<>>
  ELSE SubSeq(text, i, i + Len(XHSLINK_PREFIX) - 1
                       + SpanLen(text, i + Len(XHSLINK_PREFIX), ShortPathChars))

\* position i starts a match of
\* r'https://www\.xiaohongshu\.com/explore/[a-zA-Z0-9]+(?:\?[^,\s]*)?'
XiaohongshuAt(text, i) ==
  /\ StartsAt(text, i, EXPLORE_PREFIX)
  /\ SpanLen(text, i + Len(EXPLORE_PREFIX), Alnum) >= 1

\* re.search(xiaohongshu_pattern, text).group(0), <<>> when there is no match
xiaohongshu_match(text) ==
  IF \E i \in 1..Len(text) : XiaohongshuAt(text, i)
  THEN LET i == CHOOSE k \in 1..Len(text) :
                  XiaohongshuAt(text, k) /\ \A j \in 1..(k - 1) : ~XiaohongshuAt(text, j)
           idEnd == i + Len(EXPLORE_PREFIX) - 1
                      + SpanLen(text, i + Len(EXPLORE_PREFIX), Alnum)
           qLen == IF idEnd + 1 <= Len(text) /\ text[idEnd + 1] = "?"
                   THEN 1 + SpanLenNot(text, idEnd + 2, {","} \cup Whitespace)
                   ELSE 0
       IN SubSeq(text, i, idEnd + qLen)
  ELSE <<>>

\* the patterns tried from the longest to the shortest
note_id_patterns_longest_first == <<32, 24, 16>>

\* note_id_patterns: the lengths n of r'[a-zA-Z0-9]{n}', in the order of the list
note_id_patterns == <<24, 16, 32>>

\* ['http', 'com', 'www', 'xhs']
DENYLIST ==
  { <<"h","t","t","p">>, <<"c","o","m">>, <<"w","w","w">>, <<"x","h","s">> }

\* the positions from i on where a run of alphanumeric characters starts
RunStarts(text, i) ==
  { k \in i..Len(text) : text[k] \in Alnum /\ (k = i \/ text[k - 1] \notin Alnum) }

\* re.finditer(r'[a-zA-Z0-9]{n}', text): the start positions of the
\* non-overlapping matches, scanning from position i: a run of alphanumeric
\* characters of length l holds l \div n matches, one after the other from the
\* start of the run
finditer(text, i, n) ==
  Once(UNION { { k + j * n : j \in 0..((SpanLen(text, k, Alnum) \div n) - 1) } :
               k \in RunStarts(text, i) },
       LAMBDA starts : SelectSeq([q \in 1..Len(text) |-> q], LAMBDA q : q \in starts))

\* not any(x in note_id.lower() for x in [...])
accepted(note_id) ==
  Once(lower(note_id), LAMBDA low : ~\E x \in DENYLIST : Contains(low, x))

\* the accepted candidates of one pattern, as start positions, in text order
AcceptedAt(text, n) ==
  SelectSeq(finditer(text, 1, n), LAMBDA i : accepted(SubSeq(text, i, i + n - 1)))

RECURSIVE scan_patterns(_, _)
\* "for pattern in note_id_patterns: for match in matches: if ...: return",
\* from the k-th pattern on: the first accepted candidate as [pos, len],
\* [pos |-> 0, len |-> 0] when the loops end without one
scan_patterns(text, k) ==
  IF k > Len(note_id_patterns) THEN [pos |-> 0, len |-> 0]
  ELSE Once(AcceptedAt(text, note_id_patterns[k]), LAMBDA hits :
         IF hits # <<>> THEN [pos |-> hits[1], len |-> note_id_patterns[k]]
         ELSE scan_patterns(text, k + 1))

\* the nested loops over note_id_patterns and the matches
bare_id_scan(text) == scan_patterns(text, 1)

\* the note id of the scan's result, <<>> when there is none
bare_id(text) ==
  Once(bare_id_scan(text), LAMBDA h :
    IF h.pos = 0 THEN <<>> ELSE SubSeq(text, h.pos, h.pos + h.len - 1))

\* ------------------------------------------------- str helpers, extraction

\* None (a missing attribute, a missing value)
None == <<"None">>

\* the truth value of an attribute value: neither None nor ''
Truthy(v) == v # None /\ v # <<>>

RECURSIVE replace(_, _, _)
\* str.replace(old, new), old not empty
replace(s, old, new) ==
  Once(s, LAMBDA t :
    Once(Find(t, old), LAMBDA i :
      IF i = 0 THEN t
      ELSE SubSeq(t, 1, i - 1) \o new \o replace(From(t, i + Len(old)), old, new)))

RECURSIVE lstrip(_)
lstrip(s) == IF s # <<>> /\ Head(s) \in Whitespace THEN lstrip(Tail(s)) ELSE s

RECURSIVE rstrip(_)
rstrip(s) ==
  IF s # <<>> /\ s[Len(s)] \in Whitespace THEN rstrip(SubSeq(s, 1, Len(s) - 1)) ELSE s

\* str.strip()
strip(s) == rstrip(lstrip(s))

\* str.startswith(prefix)
startswith(s, prefix) == StartsAt(s, 1, prefix)

\* 'og:title'
OG_TITLE ==
  <<"o","g",":","t","i","t","l","e">>

\* 'description'
DESCRIPTION ==
  <<"d","e","s","c","r","i","p","t","i","o","n">>

\* 'og:image'
OG_IMAGE ==
  <<"o","g",":","i","m","a","g","e">>

\* 'keywords'
KEYWORDS ==
  <<"k","e","y","w","o","r","d","s">>

\* 'og:xhs:note_like'
NOTE_LIKE ==
  <<"o","g",":","x","h","s",":","n","o","t","e","_","l","i","k","e">>

\* 'og:xhs:note_comment'
NOTE_COMMENT ==
  <<"o","g",":","x","h","s",":","n","o","t","e","_","c","o","m","m","e","n","t">>

\* 'og:xhs:note_collect'
NOTE_COLLECT ==
  <<"o","g",":","x","h","s",":","n","o","t","e","_","c","o","l","l","e","c","t">>

\* 'og:url'
OG_URL ==
  <<"o","g",":","u","r","l">>

\* ' - ' followed by the platform's name (U+5C0F U+7EA2 U+4E66)
TITLE_SUFFIX ==
  <<" ","-"," ","U+5C0F","U+7EA2","U+4E66">>

\* '0'
ZERO ==
  <<"0">>

\* the two login-wall phrases looked for in response.text
LoginPhrases == {"please_log_in_to_continue", "log_in_to_see_more"}

\* a meta tag: its property, name and content attributes, None when missing
Meta(property, name, content) ==
  [property |-> property, name |-> name, content |-> content]

\* (prop and sub in prop) or (name and sub in name)
Mentions(meta, sub) ==
  \/ Truthy(meta.property) /\ Contains(meta.property, sub)
  \/ Truthy(meta.name) /\ Contains(meta.name, sub)

\* the loop "for meta in soup.find_all('meta'): if ...: found = meta; break":
\* the index of the first tag that mentions sub, 0 when none does
FirstMentioning(metas, sub) ==
  IF \E k \in 1..Len(metas) : Mentions(metas[k], sub)
  THEN CHOOSE k \in 1..Len(metas) :
         Mentions(metas[k], sub) /\ \A j \in 1..(k - 1) : ~Mentions(metas[j], sub)
  ELSE 0

\* soup.find('meta', attrs={attr: value}): the index of the first tag whose
\* attribute equals value, 0 when there is none
FindMeta(metas, attr, value) ==
  IF \E k \in 1..Len(metas) : metas[k][attr] = value
  THEN CHOOSE k \in 1..Len(metas) :
         metas[k][attr] = value /\ \A j \in 1..(k - 1) : metas[j][attr] # value
  ELSE 0

\* tag.get('content', '')
ContentOrEmpty(meta) == IF meta.content = None THEN <<>> ELSE meta.content

\* the title: og_title.get('content', '').replace(' - <platform>', '')
ExtractTitle(metas) ==
  LET k == FirstMentioning(metas, OG_TITLE) IN
  IF k = 0 THEN <<>> ELSE replace(ContentOrEmpty(metas[k]), TITLE_SUFFIX, <<>>)

\* the body: description.get('content', '')
ExtractBody(metas) ==
  LET k == FirstMentioning(metas, DESCRIPTION) IN
  IF k = 0 THEN <<>> ELSE ContentOrEmpty(metas[k])

\* the images: the truthy content of every tag that mentions og:image
ExtractImages(metas) ==
  LET hit == SelectSeq(metas, LAMBDA m : Mentions(m, OG_IMAGE) /\ Truthy(m.content)) IN
  [k \in 1..Len(hit) |-> hit[k].content]

\* [f"#{tag.strip()}" for tag in keywords.get('content', '').split(',')]
ExtractHashtags(metas) ==
  LET k == FindMeta(metas, "name", KEYWORDS) IN
  IF k = 0 THEN <<>>
  ELSE LET tags == split(ContentOrEmpty(metas[k]), <<",">>) IN
       [j \in 1..Len(tags) |-> <<"#">> \o strip(tags[j])]

\* likes.get('content') if likes else '0'
ExtractLikes(metas) ==
  LET k == FindMeta(metas, "property", NOTE_LIKE) IN
  IF k = 0 THEN ZERO ELSE metas[k].content

\* comments.get('content') if comments else '0'
ExtractComments(metas) ==
  LET k == FirstMentioning(metas, NOTE_COMMENT) IN
  IF k = 0 THEN ZERO ELSE metas[k].content

\* interaction_info of xiaohongshu_api.extract_content: 'collects' is '0'
InteractionInfo(metas) ==
  [likes |-> ExtractLikes(metas), comments |-> ExtractComments(metas), collects |-> ZERO]

\* xiaohongshu_api.extract_content, on the meta tags of the parsed HTML
extract_content(metas) ==
  [title |-> ExtractTitle(metas),
   content |-> ExtractBody(metas),
   images |-> ExtractImages(metas),
   hashtags |-> ExtractHashtags(metas),
   interaction_info |-> InteractionInfo(metas)]

\* the record before anything is extracted
EmptyRecord ==
  [title |-> <<>>, content |-> <<>>, images |-> <<>>, hashtags |-> <<>>,
   interaction_info |-> [likes |-> ZERO, comments |-> ZERO, collects |-> ZERO]]

\* 'xhscdn.com'
XHSCDN ==
  <<"x","h","s","c","d","n",".","c","o","m">>

\* 'http' and 'http:'
HTTP_WORD == <<"h","t","t","p">>

HTTP_COLON == <<"h","t","t","p",":">>

\* ---------------------------------- xiaohongshu_scraper: extract_content

\* tag.get('content') if tag else '0', for soup.find('meta', {'property': ...})
ScraperCounter(metas, property) ==
  LET k == FindMeta(metas, "property", property) IN
  IF k = 0 THEN ZERO ELSE metas[k].content

\* the images: the content of every tag with property og:image that holds
\* 'xhscdn.com', with 'http:' put before it when it does not start with 'http'
ScraperImages(metas) ==
  LET hit == SelectSeq(metas, LAMBDA m : /\ m.property = OG_IMAGE
                                       /\ Truthy(m.content)
                                       /\ Contains(m.content, XHSCDN)) IN
  [k \in 1..Len(hit) |->
     IF startswith(hit[k].content, HTTP_WORD) THEN hit[k].content
     ELSE HTTP_COLON \o hit[k].content]

\* xiaohongshu_scraper.extract_content, on the meta tags of the parsed HTML
scraper_extract_content(metas) ==
  LET t == FindMeta(metas, "property", OG_TITLE)
      d == FindMeta(metas, "name", DESCRIPTION)
  IN [title |-> IF t = 0 THEN <<>>
                ELSE replace(ContentOrEmpty(metas[t]), TITLE_SUFFIX, <<>>),
      content |-> IF d = 0 THEN <<>> ELSE ContentOrEmpty(metas[d]),
      images |-> ScraperImages(metas),
      hashtags |-> ExtractHashtags(metas),
      interaction_info |->
        [likes |-> ScraperCounter(metas, NOTE_LIKE),
         comments |-> ScraperCounter(metas, NOTE_COMMENT),
         collects |-> ScraperCounter(metas, NOTE_COLLECT)]]

\* ------------------------------------------------------- download_image

\* 'xiaohongshu_images'
IMAGES_DIR ==
  <<"x","i","a","o","h","o","n","g","s","h","u","_","i","m","a","g","e","s">>

\* 'discovery/item'
DISCOVERY_ITEM ==
  <<"d","i","s","c","o","v","e","r","y","/","i","t","e","m">>

\* 'explore'
EXPLORE_WORD ==
  <<"e","x","p","l","o","r","e">>

\* 'xiaohongshu_'
XIAOHONGSHU_ ==
  <<"x","i","a","o","h","o","n","g","s","h","u","_">>

\* 'xiaohongshu_direct'
XIAOHONGSHU_DIRECT ==
  <<"x","i","a","o","h","o","n","g","s","h","u","_","d","i","r","e","c","t">>

\* 'xiaohongshu_firecrawl'
XIAOHONGSHU_FIRECRAWL ==
  <<"x","i","a","o","h","o","n","g","s","h","u","_","f","i","r","e","c","r","a","w","l">>

\* 'http://'
HTTP_SCHEME ==
  <<"h","t","t","p",":","/","/">>

\* 'https://'
HTTPS_SCHEME ==
  <<"h","t","t","p","s",":","/","/">>

\* test_images of scrape_xiaohongshu: the six URLs of the list
test_images ==
  <<
    <<
      "h","t","t","p",":","/","/","s","n","s","-","w","e","b","p","i","c","-","q","c",
      ".","x","h","s","c","d","n",".","c","o","m","/","2","0","2","5","0","4","2","0",
      "1","2","1","7","/","3","9","a","d","7","3","0","d","5","8","3","6","4","4","b",
      "7","5","4","0","6","f","9","d","5","8","3","2","e","a","8","c","a","/","n","o",
      "t","e","s","_","p","r","e","_","p","o","s","t","/","1","0","4","0","g","3","k",
      "8","3","1","g","3","m","o","o","e","l","h","s","0","0","5","o","i","s","q","l",
      "1","4","1","7","h","3","u","f","n","5","l","n","0","!","n","d","_","d","f","t",
      "_","w","l","t","e","h","_","w","e","b","p","_","3">>,
    <<
      "h","t","t","p",":","/","/","s","n","s","-","w","e","b","p","i","c","-","q","c",
      ".","x","h","s","c","d","n",".","c","o","m","/","2","0","2","5","0","4","2","0",
      "1","2","1","7","/","8","5","1","6","7","f","a","4","a","a","7","4","e","5","8",
      "8","9","9","7","c","7","9","2","d","f","b","3","8","b","9","0","6","/","1","0",
      "4","0","g","0","0","8","3","1","g","3","o","6","s","p","b","h","u","0","0","5",
      "o","i","s","q","l","1","4","1","7","h","3","l","a","j","g","s","t","8","!","n",
      "d","_","d","f","t","_","w","l","t","e","h","_","w","e","b","p","_","3">>,
    <<
      "h","t","t","p",":","/","/","s","n","s","-","w","e","b","p","i","c","-","q","c",
      ".","x","h","s","c","d","n",".","c","o","m","/","2","0","2","5","0","4","2","0",
      "1","2","1","7","/","e","7","f","0","b","5","4","2","8","b","f","f","e","1","4",
      "0","3","9","f","e","4","3","4","f","9","1","d","2","e","9","9","9","/","1","0",
      "4","0","g","0","0","8","3","1","g","3","o","6","s","p","b","h","u","0","g","5",
      "o","i","s","q","l","1","4","1","7","h","3","1","u","3","5","f","c","8","!","n",
      "d","_","d","f","t","_","w","l","t","e","h","_","w","e","b","p","_","3">>,
    <<
      "h","t","t","p",":","/","/","s","n","s","-","w","e","b","p","i","c","-","q","c",
      ".","x","h","s","c","d","n",".","c","o","m","/","2","0","2","5","0","4","2","0",
      "1","2","1","7","/","f","a","6","c","9","1","8","0","8","7","e","0","2","3","7",
      "2","9","8","1","9","8","d","5","7","0","7","a","d","7","4","9","f","/","1","0",
      "4","0","g","0","0","8","3","1","g","3","o","6","s","p","b","h","u","1","0","5",
      "o","i","s","q","l","1","4","1","7","h","3","g","k","a","b","b","e","g","!","n",
      "d","_","d","f","t","_","w","l","t","e","h","_","w","e","b","p","_","3">>,
    <<
      "h","t","t","p",":","/","/","s","n","s","-","w","e","b","p","i","c","-","q","c",
      ".","x","h","s","c","d","n",".","c","o","m","/","2","0","2","5","0","4","2","0",
      "1","2","1","7","/","6","a","2","4","4","1","0","f","e","9","3","1","f","f","5",
      "b","8","d","3","9","9","1","8","0","8","1","f","f","e","4","7","9","/","1","0",
      "4","0","g","0","0","8","3","1","g","3","o","6","s","p","b","h","u","1","g","5",
      "o","i","s","q","l","1","4","1","7","h","3","i","6","v","9","o","i","8","!","n",
      "d","_","d","f","t","_","w","l","t","e","h","_","w","e","b","p","_","3">>,
    <<
      "h","t","t","p",":","/","/","s","n","s","-","w","e","b","p","i","c","-","q","c",
      ".","x","h","s","c","d","n",".","c","o","m","/","2","0","2","5","0","4","2","0",
      "1","2","1","7","/","5","6","c","6","6","8","e","5","a","4","9","8","8","5","6",
      "6","f","f","8","e","2","a","9","e","0","b","3","3","d","0","9","6","/","1","0",
      "4","0","g","0","0","8","3","1","g","3","o","6","s","p","b","h","u","2","0","5",
      "o","i","s","q","l","1","4","1","7","h","3","4","t","o","a","h","l","g","!","n",
      "d","_","d","f","t","_","w","l","t","e","h","_","w","e","b","p","_","3">>
  >>

\* str(index), for an index below 100
str(n) ==
  LET d == <<"0","1","2","3","4","5","6","7","8","9">> IN
  IF n < 10 THEN <<d[n + 1]>> ELSE <<d[(n \div 10) + 1], d[(n % 10) + 1]>>

\* the file name download_image saves under: f"image_{index}.jpg", or
\* f"{url.split('/')[-2]}.jpg" for a URL of the CDN whose last-but-one part
\* is not empty (an IndexError of the subscript is swallowed)
image_filename(url, index) ==
  Once(split(url, <<"/">>), LAMBDA parts :
    LET default == <<"i","m","a","g","e","_">> \o str(index) \o <<".","j","p","g">>
    IN IF Contains(url, XHSCDN) /\ Len(parts) >= 2 /\ parts[Len(parts) - 1] # <<>>
       THEN parts[Len(parts) - 1] \o <<".","j","p","g">>
       ELSE default)

\* f"{folder}/{filename}"
cache_key(folder, filename) == folder \o <<"/">> \o filename

\* os.path.join(os.path.join(IMAGES_DIR, folder), filename), for a folder and a
\* file name without '/'
filepath(folder, filename) == IMAGES_DIR \o <<"/">> \o folder \o <<"/">> \o filename

\* the characters re.sub(r'[<>:"/\\|?*]', '_', ...) replaces
ForbiddenInFolder == {"<", ">", ":", "\"", "/", "\\", "|", "?", "*"}

\* re.sub(r'[<>:"/\\|?*]', '_', title)
sanitize(title) == [k \in 1..Len(title) |-> IF title[k] \in ForbiddenInFolder THEN "_" ELSE title[k]]

\* what requests.get(image_url) ends with
ImageOutcomes == {"200", "other_status", "exception"}

\* ------------------------------------------------------------ inputs

\* a 16-character and a 24-character identifier, and four characters that
\* spell 'http' in mixed case
ID16 == <<"0","1","2","3","4","5","6","7","8","9","a","b","c","d","e","f">>

ID24 == <<"A","1","B","2","C","3","D","4","E","5","F","6","G","7","H","8","I","9","J","0","K","1","L","2">>

HTTP4 == <<"h","T","t","P">>

\* a well-formed short link, 'http://xhslink.com/a/EPo'
SHORT == XHSLINK_PREFIX \o <<"a","/","E","P","o">>

\* a query string, '?x=1'
QUERY == <<"?","x","=","1">>

\* an at-sign and an emoji, both of which extract_xhs_url removes
AT_EMOJI == <<"@", "U+1F606">>

\* the segments share texts are made of
Vocab == { SHORT, EXPLORE_PREFIX, ID16, ID24, HTTP4, QUERY, <<" ">>, AT_EMOJI }

\* the share texts of the resolver specification
ResolverTexts ==
  { Flatten(segs) : segs \in UNION { [1..n -> Vocab] : n \in 1..MaxSegs } }
  \cup { ID24 \o <<" ">> \o ID16 \o ID16 }

\* the Location headers the shortener answers with; <<>> is a missing or an
\* empty header (response.headers.get('Location') is falsy for both)
LOC_EXPLORE == EXPLORE_PREFIX \o ID24 \o QUERY

LOC_DISCOVERY == DISCOVERY_PREFIX \o ID24 \o QUERY

Locations == { <<>>, LOC_EXPLORE, LOC_DISCOVERY }

\* the 3xx codes that redirect with a Location header
RedirectCodes == {301, 302, 303, 307, 308}

\* what session.get(short_url, ...) ends with: an exception (transport error,
\* timeout, retries exhausted on a status of the force list) or a response
ShortResponses ==
  { [kind |-> "exception", status |-> 0, location |-> <<>>] }
  \cup [kind : {"response"}, status : {200} \cup RedirectCodes, location : Locations]

Unset == [kind |-> "unset", status |-> 0, location |-> <<>>]

\* the segments the URLs given to clean_url are made of
UrlVocab ==
  { EXPLORE, QMARK, <<"/">>, <<"a","1">>, <<"e","x","p","l","o","r">>, <<"e","/">>,
    <<"h","t","t","p","s",":","/","/","h","/">> }

CleanUrls ==
  { Flatten(segs) : segs \in UNION { [1..n -> UrlVocab] : n \in 1..MaxUrlSegs } }

\* ------------------------------------------------------------ state

\* the three programs with an extract_xhs_url
Impl == {"api", "scraper", "firecrawl"}

VARIABLES
  share_text,   \* the share text given to the program
  res,          \* per implementation, extract_xhs_url's frame:
                \*   pc, text (the cleaned share_text), short_url, url (the
                \*   value returned), tried (the steps entered, in order)
  shortResp,    \* what the shortener answers, Unset until it is asked
  netlog,       \* the outbound requests issued, in order
  clean_in,     \* the URL given to clean_url
  clean_out,    \* the results of applying clean_url once, twice
  prog,         \* the program that runs: "api", "firecrawl", "scraper", "none"
  pc,           \* where the program's entry point stands
  share_metas,  \* the meta tags an HTML parser finds in share_text
  save_images,  \* the save_images argument
  IN_VERCEL,    \* os.environ.get('VERCEL') == '1'
  url,          \* the URL the entry point works on
  response,     \* the answer to the page request
  result,       \* the record extracted (result, extracted_data)
  folder_name,  \* the folder the images go to
  idx,          \* the index of the image loop
  saved_images, \* the paths or cache keys of the images saved so far
  IMAGE_CACHE,  \* cache key -> {data, content_type}
  files,        \* the files written: path -> content
  ret           \* what the entry point returned

vars ==
  <<share_text, res, shortResp, netlog, clean_in, clean_out, prog, pc, share_metas,
    save_images, IN_VERCEL, url, response, result, folder_name, idx, saved_images,
    IMAGE_CACHE, files, ret>>

resolverVars == <<share_text, res, shortResp, netlog>>

cleanVars == <<clean_in, clean_out>>

storeVars == <<IMAGE_CACHE, files>>

loopVars == <<folder_name, idx, saved_images>>

pipeVars ==
  <<prog, pc, share_metas, save_images, IN_VERCEL, url, response, result, loopVars,
    storeVars, ret>>

\* the answer to a page request: an exception, or a response with a status and
\* the HTML, which is its meta tags and the login-wall phrases it contains
NoResponse == [kind |-> "none", status |-> 0, metas |-> <<>>, phrases |-> {}]

PageException == [kind |-> "exception", status |-> 0, metas |-> <<>>, phrases |-> {}]

PageResponse(status, metas, phrases) ==
  [kind |-> "response", status |-> status, metas |-> metas, phrases |-> phrases]

\* what an entry point returns: an error dict, or the dict of a success
NoRet ==
  [tag |-> "none", error |-> "", url |-> <<>>, record |-> EmptyRecord,
   saved_images |-> <<>>]

Err(error) == [NoRet EXCEPT !.tag = "error", !.error = error]

\* None, which xiaohongshu_scraper returns for every failure
ReturnedNone == [NoRet EXCEPT !.tag = "None"]

Success(u, record, saved) ==
  [tag |-> "success", error |-> "", url |-> u, record |-> record, saved_images |-> saved]

Frame(at) == [pc |-> at, text |-> <<>>, short_url |-> <<>>, url |-> <<>>, tried |-> <<>>]

\* an outbound request as the log keeps it; answer is what came back, "" when
\* the log does not keep it
Request(by, kind, u) == [by |-> by, kind |-> kind, url |-> u, answer |-> ""]

Answered(request, answer) == [request EXCEPT !.answer = answer]

\* the implementations are separate programs: in the side-by-side run they are
\* run one after the other, in this order
ImplOrder == <<"firecrawl", "scraper", "api">>

MayRun(i) ==
  \A k \in 1..Len(ImplOrder) :
    (\E m \in (k + 1)..Len(ImplOrder) : ImplOrder[m] = i)
      => res[ImplOrder[k]].pc \in {"off", "done"}

Goto(i, at, step) ==
  [res[i] EXCEPT !.pc = at, !.tried = Append(@, step)]

Return(i, step, u) ==
  [res[i] EXCEPT !.pc = "done", !.url = u, !.tried = Append(@, step)]

\* response.status_code in [301, 302, 307]
IsRedirect(status) == status \in {301, 302, 307}

\* the answer to session.get(short_url): the same answer to every implementation
\* of one run
ShortAnswers == IF shortResp = Unset THEN ShortResponses ELSE {shortResp}

\* f"https://www.xiaohongshu.com/explore/{note_id}"
explore_url(note_id) == EXPLORE_PREFIX \o note_id

\* ------------------------------------------- extract_xhs_url, xiaohongshu_api

\* share_text.replace('@', ''); re.sub(emoji, '', share_text)
Strip(i) ==
  /\ res[i].pc = "start"
  /\ MayRun(i)
  /\ res' = [res EXCEPT ![i] =
                [@ EXCEPT !.pc = IF i = "scraper" THEN "bare" ELSE "short",
                          !.text = strip_mentions_emoji(share_text)]]
  /\ UNCHANGED <<share_text, shortResp, netlog, cleanVars, pipeVars>>

\* re.search(xhslink_pattern, share_text); if xhslink_match: ...
Api_ShortMatch ==
  /\ res["api"].pc = "short"
  /\ LET m == xhslink_match(res["api"].text) IN
     res' = [res EXCEPT !["api"] =
               IF m # <<>>
               THEN [Goto("api", "get", "short") EXCEPT !.short_url = m]
               ELSE Goto("api", "full", "short")]
  /\ UNCHANGED <<share_text, shortResp, netlog, cleanVars, pipeVars>>

\* the outcome of the try block around session.get(short_url, ...): the URL
\* returned, <<>> when the block falls through
ShortOutcome(resp) ==
  IF resp.kind = "response" /\ IsRedirect(resp.status) /\ resp.location # <<>>
  THEN clean_url(resp.location)
  ELSE <<>>

\* the try block with the exception handler returning '' instead of passing on
ShortGetFailFast(i, resp) ==
  IF ShortOutcome(resp) # <<>>
  THEN Return(i, "get", ShortOutcome(resp))
  ELSE Return(i, "get", <<>>)

\* session.get(short_url, allow_redirects=False, timeout=10) and what follows
\* it, in xiaohongshu_api: return the cleaned Location, or go on to the full link
Api_AfterGet(i, resp) ==
  IF ShortOutcome(resp) # <<>>
  THEN Return(i, "get", ShortOutcome(resp))
  ELSE Goto(i, "full", "get")

Api_ShortGet ==
  /\ res["api"].pc = "get"
  /\ \E resp \in ShortAnswers :
       /\ shortResp' = resp
       /\ res' = [res EXCEPT !["api"] = Api_AfterGet("api", resp)]
  /\ netlog' = Append(netlog, Request("api", "shortener", res["api"].short_url))
  /\ UNCHANGED <<share_text, cleanVars, pipeVars>>

\* re.search(xiaohongshu_pattern, share_text); return clean_url(full_url)
Api_FullMatch ==
  /\ res["api"].pc = "full"
  /\ LET m == xiaohongshu_match(res["api"].text) IN
     res' = [res EXCEPT !["api"] =
               IF m # <<>> THEN Return("api", "full", clean_url(m))
               ELSE Goto("api", "bare", "full")]
  /\ UNCHANGED <<share_text, shortResp, netlog, cleanVars, pipeVars>>

\* the loops over note_id_patterns; return full_url, or '' at the end
Api_BareId ==
  /\ res["api"].pc = "bare"
  /\ LET id == bare_id(res["api"].text) IN
     res' = [res EXCEPT !["api"] =
               Return("api", "bare", IF id # <<>> THEN explore_url(id) ELSE <<>>)]
  /\ UNCHANGED <<share_text, shortResp, netlog, cleanVars, pipeVars>>

\* --------------------------------------- extract_xhs_url, xiaohongshu_scraper

\* the loops over note_id_patterns come first
Scraper_BareId ==
  /\ res["scraper"].pc = "bare"
  /\ LET id == bare_id(res["scraper"].text) IN
     res' = [res EXCEPT !["scraper"] =
               IF id # <<>> THEN Return("scraper", "bare", explore_url(id))
               ELSE Goto("scraper", "full", "bare")]
  /\ UNCHANGED <<share_text, shortResp, netlog, cleanVars, pipeVars>>

\* then the full link
Scraper_FullMatch ==
  /\ res["scraper"].pc = "full"
  /\ LET m == xiaohongshu_match(res["scraper"].text) IN
     res' = [res EXCEPT !["scraper"] =
               IF m # <<>> THEN Return("scraper", "full", clean_url(m))
               ELSE Goto("scraper", "short", "full")]
  /\ UNCHANGED <<share_text, shortResp, netlog, cleanVars, pipeVars>>

\* the short link is matched last; without a match: return ""
Scraper_ShortMatch ==
  /\ res["scraper"].pc = "short"
  /\ LET m == xhslink_match(res["scraper"].text) IN
     res' = [res EXCEPT !["scraper"] =
               IF m # <<>>
               THEN [Goto("scraper", "get", "short") EXCEPT !.short_url = m]
               ELSE Return("scraper", "short", <<>>)]
  /\ UNCHANGED <<share_text, shortResp, netlog, cleanVars, pipeVars>>

\* session.get(short_url, ...) and what follows it, in xiaohongshu_scraper:
\* return the cleaned Location, or fall out of the block to return ""
Scraper_AfterGet(i, resp) == Return(i, "get", ShortOutcome(resp))

Scraper_ShortGet ==
  /\ res["scraper"].pc = "get"
  /\ \E resp \in ShortAnswers :
       /\ shortResp' = resp
       /\ res' = [res EXCEPT !["scraper"] = Scraper_AfterGet("scraper", resp)]
  /\ netlog' = Append(netlog, Request("scraper", "shortener", res["scraper"].short_url))
  /\ UNCHANGED <<share_text, cleanVars, pipeVars>>

\* -------------------------------------- extract_xhs_url, firecrawl_xiaohongshu

\* the short link is returned as it stands: no request, no clean_url
Firecrawl_ShortMatch ==
  /\ res["firecrawl"].pc = "short"
  /\ LET m == xhslink_match(res["firecrawl"].text) IN
     res' = [res EXCEPT !["firecrawl"] =
               IF m # <<>>
               THEN [Return("firecrawl", "short", m) EXCEPT !.short_url = m]
               ELSE Goto("firecrawl", "full", "short")]
  /\ UNCHANGED <<share_text, shortResp, netlog, cleanVars, pipeVars>>

\* the full link is returned as matched, query string included
Firecrawl_FullMatch ==
  /\ res["firecrawl"].pc = "full"
  /\ LET m == xiaohongshu_match(res["firecrawl"].text) IN
     res' = [res EXCEPT !["firecrawl"] =
               IF m # <<>> THEN Return("firecrawl", "full", m)
               ELSE Goto("firecrawl", "bare", "full")]
  /\ UNCHANGED <<share_text, shortResp, netlog, cleanVars, pipeVars>>

Firecrawl_BareId ==
  /\ res["firecrawl"].pc = "bare"
  /\ LET id == bare_id(res["firecrawl"].text) IN
     res' = [res EXCEPT !["firecrawl"] =
               Return("firecrawl", "bare", IF id # <<>> THEN explore_url(id) ELSE <<>>)]
  /\ UNCHANGED <<share_text, shortResp, netlog, cleanVars, pipeVars>>

\* the entry point's variables when no program is run
PipelineOff ==
  /\ prog = "none"
  /\ pc = "off"
  /\ share_metas = <<>>
  /\ save_images = FALSE
  /\ IN_VERCEL = FALSE
  /\ url = <<>>
  /\ response = NoResponse
  /\ result = EmptyRecord
  /\ folder_name = <<>>
  /\ idx = 0
  /\ saved_images = <<>>
  /\ IMAGE_CACHE = <<>>
  /\ files = <<>>
  /\ ret = NoRet

\* ------------------------------------------------- the resolvers, side by side

ResolverStep ==
  \/ \E i \in Impl : Strip(i)
  \/ Api_ShortMatch
  \/ Api_ShortGet
  \/ Api_FullMatch
  \/ Api_BareId
  \/ Scraper_BareId
  \/ Scraper_FullMatch
  \/ Scraper_ShortMatch
  \/ Scraper_ShortGet
  \/ Firecrawl_ShortMatch
  \/ Firecrawl_FullMatch
  \/ Firecrawl_BareId

\* the three implementations are given the same share text
InitResolvers ==
  /\ share_text \in ResolverTexts
  /\ res = [i \in Impl |-> Frame("start")]
  /\ shortResp = Unset
  /\ netlog = <<>>
  /\ clean_in = <<>>
  /\ clean_out = <<>>
  /\ PipelineOff

SpecResolvers == InitResolvers /\ [][ResolverStep]_vars

\* ------------------------------------------------- clean_url, applied twice

CleanOnce ==
  /\ Len(clean_out) < 2
  /\ clean_out' = Append(clean_out,
                         clean_url(IF clean_out = <<>> THEN clean_in
                                   ELSE clean_out[Len(clean_out)]))
  /\ UNCHANGED <<clean_in, resolverVars, pipeVars>>

InitClean ==
  /\ clean_in \in CleanUrls
  /\ clean_out = <<>>
  /\ share_text = <<>>
  /\ res = [i \in Impl |-> Frame("off")]
  /\ shortResp = Unset
  /\ netlog = <<>>
  /\ PipelineOff

SpecClean == InitClean /\ [][CleanOnce]_vars

\* ------------------------------------------------------ pipeline inputs

\* the meta tags pages are made of
T_TITLE == Meta(OG_TITLE, None, <<"H","i"," ","-"," ","U+5C0F","U+7EA2","U+4E66">>)

T_TITLE_BARE == Meta(OG_TITLE, None, None)

\* a title that is the name of the parent directory
T_TITLE_DOTS == Meta(OG_TITLE, None, <<".", ".">>)

T_DESC == Meta(None, DESCRIPTION, <<"b","o","d","y">>)

T_IMAGE == Meta(OG_IMAGE, None, <<"/","/","c","i",".","x","h","s","c","d","n",".","c","o","m","/","a","1","/","b","2">>)

T_IMAGE_NAME == Meta(None, OG_IMAGE, <<"h","t","t","p","s",":","/","/","x",".","o","r","g","/","p",".","p","n","g">>)

\* two images of the CDN whose URLs differ in the last part only
T_IMAGE_A == Meta(OG_IMAGE, None, <<"h","t","t","p",":","/","/","c","i",".","x","h","s","c","d","n",".","c","o","m","/","n","/","a","1">>)

T_IMAGE_B == Meta(OG_IMAGE, None, <<"h","t","t","p",":","/","/","c","i",".","x","h","s","c","d","n",".","c","o","m","/","n","/","b","2">>)

T_KEYWORDS == Meta(None, KEYWORDS, <<"a",","," ","b">>)

T_LIKE == Meta(NOTE_LIKE, None, <<"7">>)

T_COMMENT == Meta(NOTE_COMMENT, None, <<"3">>)

T_COLLECT == Meta(NOTE_COLLECT, None, <<"2">>)

T_VIEWPORT == Meta(None, <<"v","i","e","w","p","o","r","t">>, <<"w","i","d","t","h">>)

TagVocab ==
  { T_TITLE, T_TITLE_BARE, T_DESC, T_IMAGE, T_IMAGE_NAME, T_KEYWORDS, T_LIKE,
    T_COMMENT, T_COLLECT, T_VIEWPORT }

\* a page holds at most MaxMetas meta tags
MetaSeqs == UNION { [1..n -> TagVocab] : n \in 0..MaxMetas }

\* a page contains none or one of the login-wall phrases
PhraseSets == { {} } \cup { {ph} : ph \in LoginPhrases }

\* the answers to the page request: an exception, a status other than 200, or
\* 200 with a page
PageResponses ==
  { PageException }
  \cup { PageResponse(st, <<>>, ph) : st \in {403, 404, 500}, ph \in PhraseSets }
  \cup { PageResponse(200, m, ph) : m \in MetaSeqs, ph \in PhraseSets }
  \cup { PageResponse(200, <<T_TITLE_DOTS>>, {}) }

\* the text of a meta tag: <meta property="..." name="..." content="...">,
\* each attribute written when it is not None
render_meta(m) ==
  <<"<","m","e","t","a">>
  \o (IF m.property = None THEN <<>>
      ELSE <<" ","p","r","o","p","e","r","t","y","=","\"">> \o m.property \o <<"\"">>)
  \o (IF m.name = None THEN <<>>
      ELSE <<" ","n","a","m","e","=","\"">> \o m.name \o <<"\"">>)
  \o (IF m.content = None THEN <<>>
      ELSE <<" ","c","o","n","t","e","n","t","=","\"">> \o m.content \o <<"\"">>)
  \o <<">">>

render(metas) == Flatten([k \in 1..Len(metas) |-> render_meta(metas[k])])

\* '<meta name=' and '<meta property='
META_NAME ==
  <<"<","m","e","t","a"," ","n","a","m","e","=">>

META_PROPERTY ==
  <<"<","m","e","t","a"," ","p","r","o","p","e","r","t","y","=">>

\* a 15-character token and the share text of the app: '70 <token> <emoji>
\* http://xhslink.com/a/EPo<fullwidth comma>'
TOKEN15 ==
  <<"2","B","4","f","y","O","9","n","D","G","b","k","J","s","c">>

APP_SHARE ==
  <<"7","0"," ">> \o TOKEN15 \o <<" ","U+1F606"," ">> \o SHORT \o <<"U+FF0C">>

ShortException == [kind |-> "exception", status |-> 0, location |-> <<>>]

ShortRedirect(status, location) ==
  [kind |-> "response", status |-> status, location |-> location]

\* the inputs of the pipelines: a share text, the meta tags an HTML parser finds
\* in it, and the shortener's answer to its short link (Unset for a text
\* without one)
PipelineInput(text, metas, shortener) ==
  [text |-> text, metas |-> metas, shortener |-> shortener]

PipelineInputs ==
  { PipelineInput(SHORT \o <<" ">> \o ID24, <<>>, ShortException),
    PipelineInput(SHORT \o <<" ">> \o ID24, <<>>, ShortRedirect(301, LOC_EXPLORE)),
    PipelineInput(APP_SHARE, <<>>, ShortException),
    PipelineInput(APP_SHARE, <<>>, ShortRedirect(302, LOC_DISCOVERY)),
    PipelineInput(EXPLORE_PREFIX \o ID24 \o QUERY, <<>>, Unset),
    PipelineInput(<<"h","e","l","l","o">>, <<>>, Unset),
    PipelineInput(HTTP4 \o ID16 \o HTTP4, <<>>, Unset),
    PipelineInput(render(<<T_TITLE, T_IMAGE>>), <<T_TITLE, T_IMAGE>>, Unset),
    PipelineInput(render(<<T_IMAGE_A, T_IMAGE_B>>), <<T_IMAGE_A, T_IMAGE_B>>, Unset),
    PipelineInput(render(<<T_TITLE_DOTS, T_IMAGE_A>>), <<T_TITLE_DOTS, T_IMAGE_A>>, Unset),
    PipelineInput(render(<<T_DESC>>), <<T_DESC>>, Unset) }

\* ------------------------------------------- the image loop, download_image

\* requests.get(url) answered 200: the image is stored in IMAGE_CACHE under
\* cache_key, or written to filepath; the value returned is the key or the path
\* the path download_image writes to: xiaohongshu_api joins IMAGES_DIR, the
\* folder and the file name, xiaohongshu_scraper the folder and the file name
download_path(folder, filename) ==
  IF prog = "scraper" THEN folder \o <<"/">> \o filename ELSE filepath(folder, filename)

Store(image_url, index) ==
  LET filename == image_filename(image_url, index) IN
  IF IN_VERCEL
  THEN /\ IMAGE_CACHE' =
            (cache_key(folder_name, filename) :> [data |-> [b64 |-> image_url],
                                                  content_type |-> "image/jpeg"])
            @@ IMAGE_CACHE
       /\ saved_images' = Append(saved_images, cache_key(folder_name, filename))
       /\ UNCHANGED files
  ELSE /\ files' = (download_path(folder_name, filename) :> [bytes |-> image_url]) @@ files
       /\ saved_images' = Append(saved_images, download_path(folder_name, filename))
       /\ UNCHANGED IMAGE_CACHE

\* what requests.get(url, ...) of download_image can end with: a URL without
\* http:// or https:// raises before anything is sent
ImageOutcomesFor(image_url) ==
  IF startswith(image_url, HTTP_SCHEME) \/ startswith(image_url, HTTPS_SCHEME)
  THEN ImageOutcomes
  ELSE {"exception"}

\* a loop that gives up the batch at the first image that is not saved
NextIndexAbortOnFailure(saved_path) ==
  IF saved_path # <<>> THEN idx + 1 ELSE Len(result.images)

\* "for i, image_url in enumerate(images)": the loop goes on to the next image
\* whatever download_image returned
NextIndex(saved_path) == idx + 1

\* what download_image returns: the cache key or the path after a 200, ""
\* after another status or an exception
SavedPath(image_url, index, outcome) ==
  IF outcome # "200" THEN <<>>
  ELSE IF IN_VERCEL THEN cache_key(folder_name, image_filename(image_url, index))
  ELSE download_path(folder_name, image_filename(image_url, index))

\* a download_image that stores what came back before looking at the status
AfterDownloadStoringFirst(image_url, index, outcome) ==
  IF outcome = "exception" THEN UNCHANGED <<saved_images, storeVars>>
  ELSE Store(image_url, index)

\* what download_image and the loop do with the answer: after a 200 the image
\* is stored and its path or key appended; another status is logged and an
\* exception caught, both return "" and nothing is stored or appended
AfterDownload(image_url, index, outcome) ==
  IF outcome = "200" THEN Store(image_url, index)
  ELSE UNCHANGED <<saved_images, storeVars>>

\* one round of "for i, image_url in enumerate(images): saved_path =
\* download_image(image_url, folder_name, i); if saved_path: append"
Download ==
  /\ pc = "download"
  /\ idx < Len(result.images)
  /\ \E outcome \in ImageOutcomesFor(result.images[idx + 1]) :
       /\ netlog' = Append(netlog,
                           Answered(Request(prog, "image", result.images[idx + 1]),
                                    IF outcome = "200" THEN "200" ELSE "failed"))
       /\ AfterDownload(result.images[idx + 1], idx, outcome)
       /\ idx' = NextIndex(SavedPath(result.images[idx + 1], idx, outcome))
  /\ UNCHANGED <<share_text, res, shortResp, cleanVars, prog, pc, share_metas,
                 save_images, IN_VERCEL, url, response, result, folder_name, ret>>

\* the loop ends: result['saved_images'] = saved_images, and the entry point
\* returns its dict
DownloadsDone ==
  /\ pc = "download"
  /\ idx = Len(result.images)
  /\ ret' = Success(url, result, saved_images)
  /\ pc' = "done"
  /\ UNCHANGED <<resolverVars, cleanVars, prog, share_metas, save_images, IN_VERCEL,
                 url, response, result, loopVars, storeVars>>

\* ------------------------------ xiaohongshu_api: extract_xiaohongshu_content

\* "<meta name=" in share_text or "<meta property=" in share_text: the share
\* text is parsed and extraction runs on its own tags, with 'likes' '0'
Api_DirectMeta ==
  /\ prog = "api" /\ pc = "entry"
  /\ Contains(share_text, META_NAME) \/ Contains(share_text, META_PROPERTY)
  /\ LET rec == [extract_content(share_metas) EXCEPT !.interaction_info.likes = ZERO]
         og  == FindMeta(share_metas, "property", OG_URL)
         u   == IF og = 0 THEN <<>> ELSE share_metas[og].content
     IN /\ result' = rec
        /\ url' = u
        /\ IF save_images /\ rec.images # <<>>
           THEN /\ folder_name' =
                     sanitize(IF rec.title # <<>> THEN rec.title ELSE XIAOHONGSHU_DIRECT)
                /\ pc' = "download"
                /\ UNCHANGED ret
           ELSE /\ ret' = Success(u, rec, <<>>)
                /\ pc' = "done"
                /\ UNCHANGED folder_name
  /\ UNCHANGED <<resolverVars, cleanVars, prog, share_metas, save_images, IN_VERCEL,
                 response, idx, saved_images, storeVars>>

\* url = extract_xhs_url(input_data.share_text)
Api_StartResolve ==
  /\ prog = "api" /\ pc = "entry"
  /\ ~(Contains(share_text, META_NAME) \/ Contains(share_text, META_PROPERTY))
  /\ res' = [res EXCEPT !["api"] = Frame("start")]
  /\ pc' = "resolving"
  /\ UNCHANGED <<share_text, shortResp, netlog, cleanVars, prog, share_metas,
                 save_images, IN_VERCEL, url, response, result, loopVars, storeVars, ret>>

\* the caller goes on to scrape_xiaohongshu whatever url is
ResolvedIgnoringEmpty(p, u) ==
  /\ pc' = "fetch"
  /\ UNCHANGED ret

\* if not url: return {"error": ...}
Resolved(p, u) ==
  IF u = <<>>
  THEN /\ ret' = Err("link_not_found")
       /\ pc' = "done"
  ELSE /\ pc' = "fetch"
       /\ UNCHANGED ret

Api_Resolved ==
  /\ prog = "api" /\ pc = "resolving"
  /\ res["api"].pc = "done"
  /\ url' = res["api"].url
  /\ Resolved("api", res["api"].url)
  /\ UNCHANGED <<resolverVars, cleanVars, prog, share_metas, save_images, IN_VERCEL,
                 response, result, loopVars, storeVars>>

\* ----------------------------------------- xiaohongshu_api: scrape_xiaohongshu

\* clean_url = url.split('?')[0] if '?' in url else url, with 'discovery/item'
\* replaced by 'explore'
page_url(u) == replace(split(u, QMARK)[1], DISCOVERY_ITEM, EXPLORE_WORD)

\* response = requests.get(clean_url, headers=get_headers(), verify=False),
\* answered by one of responses; an exception ends in the handler of
\* scrape_xiaohongshu
Api_FetchFrom(responses) ==
  /\ prog = "api" /\ pc = "fetch"
  /\ netlog' = Append(netlog, Request("api", "page", page_url(url)))
  /\ \E resp \in responses :
       /\ response' = resp
       /\ IF resp.kind = "exception"
          THEN /\ ret' = Err("exception")
               /\ pc' = "done"
          ELSE /\ pc' = "status"
               /\ UNCHANGED ret
  /\ UNCHANGED <<share_text, res, shortResp, cleanVars, prog, share_metas,
                 save_images, IN_VERCEL, url, result, loopVars, storeVars>>

Api_Fetch == Api_FetchFrom(PageResponses)

\* the elif/else branches of "if response.status_code == 200"
Api_BadStatus ==
  /\ prog = "api" /\ pc = "status"
  /\ response.status # 200
  /\ ret' = Err(CASE response.status = 404 -> "http_404"
                  [] response.status = 403 -> "http_403"
                  [] OTHER -> "http_status")
  /\ pc' = "done"
  /\ UNCHANGED <<resolverVars, cleanVars, prog, share_metas, save_images, IN_VERCEL,
                 url, response, result, loopVars, storeVars>>

\* if '<phrase 1>' in response.text or '<phrase 2>' in response.text: return
\* the login error
LoginCheck(phrases) ==
  IF phrases # {}
  THEN /\ ret' = Err("login_required")
       /\ pc' = "done"
  ELSE /\ pc' = "extract"
       /\ UNCHANGED ret

Api_LoginCheck ==
  /\ prog = "api" /\ pc = "status"
  /\ response.status = 200
  /\ LoginCheck(response.phrases)
  /\ UNCHANGED <<resolverVars, cleanVars, prog, share_metas, save_images, IN_VERCEL,
                 url, response, result, loopVars, storeVars>>

\* an emptiness test that never reports
IsEmptyResultNever(rec) == FALSE

\* not result['title'] and not result['content'] and not result['images']
IsEmptyResult(rec) == rec.title = <<>> /\ rec.content = <<>> /\ rec.images = <<>>

\* folder_name of scrape_xiaohongshu: the title, or f"xiaohongshu_{note_id}"
\* with note_id = clean_url.split('/')[-1] when the title is blank
ScrapeFolder(title, u) ==
  IF strip(sanitize(title)) # <<>> THEN sanitize(title)
  ELSE LET parts == split(page_url(u), <<"/">>) IN XIAOHONGSHU_ \o parts[Len(parts)]

\* result = extract_content(response.text), the emptiness test, the test
\* images, and the start of the image loop
Api_Extract ==
  /\ prog = "api" /\ pc = "extract"
  /\ LET rec == extract_content(response.metas) IN
     IF IsEmptyResult(rec)
     THEN /\ result' = rec
          /\ ret' = Err("not_extractable")
          /\ pc' = "done"
          /\ UNCHANGED folder_name
     ELSE /\ result' = [rec EXCEPT !.images = test_images]
          /\ IF save_images
             THEN /\ folder_name' = ScrapeFolder(rec.title, url)
                  /\ pc' = "download"
                  /\ UNCHANGED ret
             ELSE /\ ret' = Success(url, [rec EXCEPT !.images = test_images], <<>>)
                  /\ pc' = "done"
                  /\ UNCHANGED folder_name
  /\ UNCHANGED <<resolverVars, cleanVars, prog, share_metas, save_images, IN_VERCEL,
                 url, response, idx, saved_images, storeVars>>

\* ------------------- firecrawl_xiaohongshu: scrape_xiaohongshu_with_firecrawl

\* the input starts with http:// or https://: it is the URL
Fc_EntryUrl ==
  /\ prog = "firecrawl" /\ pc = "entry"
  /\ startswith(share_text, HTTP_SCHEME) \/ startswith(share_text, HTTPS_SCHEME)
  /\ url' = share_text
  /\ pc' = "fetch"
  /\ UNCHANGED <<resolverVars, cleanVars, prog, share_metas, save_images, IN_VERCEL,
                 response, result, loopVars, storeVars, ret>>

\* url = extract_xhs_url(url_or_share_text)
Fc_StartResolve ==
  /\ prog = "firecrawl" /\ pc = "entry"
  /\ ~(startswith(share_text, HTTP_SCHEME) \/ startswith(share_text, HTTPS_SCHEME))
  /\ res' = [res EXCEPT !["firecrawl"] = Frame("start")]
  /\ pc' = "resolving"
  /\ UNCHANGED <<share_text, shortResp, netlog, cleanVars, prog, share_metas,
                 save_images, IN_VERCEL, url, response, result, loopVars, storeVars, ret>>

Fc_Resolved ==
  /\ prog = "firecrawl" /\ pc = "resolving"
  /\ res["firecrawl"].pc = "done"
  /\ url' = res["firecrawl"].url
  /\ Resolved("firecrawl", res["firecrawl"].url)
  /\ UNCHANGED <<resolverVars, cleanVars, prog, share_metas, save_images, IN_VERCEL,
                 response, result, loopVars, storeVars>>

\* response = requests.post(FIRECRAWL_API_URL, ...): an exception and a status
\* other than 200 end in an error dict; 200 carries the page's HTML
Fc_Post ==
  /\ prog = "firecrawl" /\ pc = "fetch"
  /\ netlog' = Append(netlog, Request("firecrawl", "firecrawl_api", url))
  /\ \E resp \in PageResponses :
       /\ response' = resp
       /\ IF resp.kind = "exception"
          THEN /\ ret' = Err("exception")
               /\ pc' = "done"
          ELSE IF resp.status # 200
          THEN /\ ret' = Err("api_request_failed")
               /\ pc' = "done"
          ELSE /\ pc' = "extract"
               /\ UNCHANGED ret
  /\ UNCHANGED <<share_text, res, shortResp, cleanVars, prog, share_metas,
                 save_images, IN_VERCEL, url, result, loopVars, storeVars>>

\* folder_name of the firecrawl pipeline
FirecrawlFolder(title) ==
  IF strip(sanitize(title)) # <<>> THEN sanitize(title) ELSE XIAOHONGSHU_FIRECRAWL

\* extracted_data = extract_content(html_content); the image loop when
\* save_images and extracted_data['images']; the dict returned otherwise
Fc_Extract ==
  /\ prog = "firecrawl" /\ pc = "extract"
  /\ LET rec == extract_content(response.metas) IN
     /\ result' = rec
     /\ IF save_images /\ rec.images # <<>>
        THEN /\ folder_name' = FirecrawlFolder(rec.title)
             /\ pc' = "download"
             /\ UNCHANGED ret
        ELSE /\ ret' = Success(url, rec, <<>>)
             /\ pc' = "done"
             /\ UNCHANGED folder_name
  /\ UNCHANGED <<resolverVars, cleanVars, prog, share_metas, save_images, IN_VERCEL,
                 url, response, idx, saved_images, storeVars>>

\* ------------------------------------------- xiaohongshu_scraper: main

\* url = extract_xhs_url(share_text)
Scr_StartResolve ==
  /\ prog = "scraper" /\ pc = "entry"
  /\ res' = [res EXCEPT !["scraper"] = Frame("start")]
  /\ pc' = "resolving"
  /\ UNCHANGED <<share_text, shortResp, netlog, cleanVars, prog, share_metas,
                 save_images, IN_VERCEL, url, response, result, loopVars, storeVars, ret>>

\* if not url: print(...); return
Scr_Resolved ==
  /\ prog = "scraper" /\ pc = "resolving"
  /\ res["scraper"].pc = "done"
  /\ url' = res["scraper"].url
  /\ IF res["scraper"].url = <<>>
     THEN /\ ret' = ReturnedNone
          /\ pc' = "done"
     ELSE /\ pc' = "fetch"
          /\ UNCHANGED ret
  /\ UNCHANGED <<resolverVars, cleanVars, prog, share_metas, save_images, IN_VERCEL,
                 response, result, loopVars, storeVars>>

\* response = requests.get(clean_url, headers=get_headers(), verify=False);
\* the handler of scrape_xiaohongshu prints and returns None
Scr_Fetch ==
  /\ prog = "scraper" /\ pc = "fetch"
  /\ netlog' = Append(netlog, Request("scraper", "page", page_url(url)))
  /\ \E resp \in PageResponses :
       /\ response' = resp
       /\ IF resp.kind = "exception"
          THEN /\ ret' = ReturnedNone
               /\ pc' = "done"
          ELSE /\ pc' = "status"
               /\ UNCHANGED ret
  /\ UNCHANGED <<share_text, res, shortResp, cleanVars, prog, share_metas,
                 save_images, IN_VERCEL, url, result, loopVars, storeVars>>

\* the elif/else branches of "if response.status_code == 200": each prints
\* its own note and returns None
Scr_BadStatus ==
  /\ prog = "scraper" /\ pc = "status"
  /\ response.status # 200
  /\ ret' = ReturnedNone
  /\ pc' = "done"
  /\ UNCHANGED <<resolverVars, cleanVars, prog, share_metas, save_images, IN_VERCEL,
                 url, response, result, loopVars, storeVars>>

\* the login-wall phrases: print the advice and return None
Scr_LoginCheck ==
  /\ prog = "scraper" /\ pc = "status"
  /\ response.status = 200
  /\ IF response.phrases # {}
     THEN /\ ret' = ReturnedNone
          /\ pc' = "done"
     ELSE /\ pc' = "extract"
          /\ UNCHANGED ret
  /\ UNCHANGED <<resolverVars, cleanVars, prog, share_metas, save_images, IN_VERCEL,
                 url, response, result, loopVars, storeVars>>

\* not result['title'] and not result['content']
ScraperIsEmptyResult(rec) == rec.title = <<>> /\ rec.content = <<>>

\* result = extract_content(response.text), the emptiness test, the test
\* images, and the start of the image loop
Scr_Extract ==
  /\ prog = "scraper" /\ pc = "extract"
  /\ LET rec == scraper_extract_content(response.metas) IN
     IF ScraperIsEmptyResult(rec)
     THEN /\ result' = rec
          /\ ret' = ReturnedNone
          /\ pc' = "done"
          /\ UNCHANGED folder_name
     ELSE /\ result' = [rec EXCEPT !.images = test_images]
          /\ IF save_images
             THEN /\ folder_name' = ScrapeFolder(rec.title, url)
                  /\ pc' = "download"
                  /\ UNCHANGED ret
             ELSE /\ ret' = Success(url, [rec EXCEPT !.images = test_images], <<>>)
                  /\ pc' = "done"
                  /\ UNCHANGED folder_name
  /\ UNCHANGED <<resolverVars, cleanVars, prog, share_metas, save_images, IN_VERCEL,
                 url, response, idx, saved_images, storeVars>>

\* ------------------------------------------------------------ the programs

\* the share texts xiaohongshu_scraper is run on
ScraperTexts ==
  { <<"h","e","l","l","o">>, EXPLORE_PREFIX \o ID24 \o QUERY, APP_SHARE }

Init ==
  /\ prog \in {"api", "firecrawl", "scraper"}
  /\ \E inp \in PipelineInputs :
       /\ share_text = inp.text
       /\ share_metas = inp.metas
       /\ shortResp = inp.shortener
  /\ save_images \in BOOLEAN
  /\ IN_VERCEL \in BOOLEAN
  /\ prog = "scraper" => /\ share_text \in ScraperTexts
                         /\ save_images     \* main: scrape_xiaohongshu(url)
                         /\ ~IN_VERCEL      \* download_image writes files
  /\ pc = "entry"
  /\ res = [i \in Impl |-> Frame("off")]
  /\ netlog = <<>>
  /\ clean_in = <<>>
  /\ clean_out = <<>>
  /\ url = <<>>
  /\ response = NoResponse
  /\ result = EmptyRecord
  /\ folder_name = <<>>
  /\ idx = 0
  /\ saved_images = <<>>
  /\ IMAGE_CACHE = <<>>
  /\ files = <<>>
  /\ ret = NoRet

Next ==
  \/ \E i \in Impl : Strip(i)
  \/ Api_ShortMatch
  \/ Api_ShortGet
  \/ Api_FullMatch
  \/ Api_BareId
  \/ Scraper_BareId
  \/ Scraper_FullMatch
  \/ Scraper_ShortMatch
  \/ Scraper_ShortGet
  \/ Firecrawl_ShortMatch
  \/ Firecrawl_FullMatch
  \/ Firecrawl_BareId
  \/ Scr_StartResolve
  \/ Scr_Resolved
  \/ Scr_Fetch
  \/ Scr_BadStatus
  \/ Scr_LoginCheck
  \/ Scr_Extract
  \/ Api_DirectMeta
  \/ Api_StartResolve
  \/ Api_Resolved
  \/ Api_Fetch
  \/ Api_BadStatus
  \/ Api_LoginCheck
  \/ Api_Extract
  \/ Fc_EntryUrl
  \/ Fc_StartResolve
  \/ Fc_Resolved
  \/ Fc_Post
  \/ Fc_Extract
  \/ Download
  \/ DownloadsDone

Spec == Init /\ [][Next]_vars


\* ------------------------------------- xiaohongshu_api, send by send

\* Retry(total=3, ...): the retries the adapter of create_session allows
RETRY_TOTAL == 3

\* status_forcelist=[404, 429, 500, 502, 503, 504]
STATUS_FORCELIST == {404, 429, 500, 502, 503, 504}

\* what a send can meet other than a response to return: a response whose
\* status is in STATUS_FORCELIST, or a host that accepts the connection and
\* does not answer (the adapter handles a connection error the same way)
SendFailures == {"status_forcelist", "no_answer"}

\* the responses session.get returns in the send-by-send runs
NetShortResponses == { ShortRedirect(302, LOC_EXPLORE), ShortRedirect(200, <<>>) }

\* the answers to the page request in the send-by-send runs
NetPageResponses ==
  { PageException,
    PageResponse(404, <<>>, {}),
    PageResponse(200, <<T_TITLE>>, {}),
    PageResponse(200, <<>>, {}) }

\* the sends of session.get(short_url) so far
ShortSends == Cardinality({ k \in 1..Len(netlog) : netlog[k].kind = "shortener" })

\* one send of session.get(short_url, allow_redirects=False, timeout=10)
\* through the adapter of create_session: a failure is retried while retries
\* are left, and raises when they are used up (the handler of extract_xhs_url
\* catches it); timeout=10 turns a host that does not answer into a failure
Api_ShortSend ==
  /\ res["api"].pc = "get"
  /\ \/ \E failure \in SendFailures :
          /\ netlog' = Append(netlog,
                              Answered(Request("api", "shortener", res["api"].short_url),
                                       failure))
          /\ IF ShortSends + 1 > RETRY_TOTAL
             THEN /\ shortResp' = ShortException
                  /\ res' = [res EXCEPT !["api"] = Api_AfterGet("api", ShortException)]
             ELSE UNCHANGED <<res, shortResp>>
     \/ \E resp \in NetShortResponses :
          /\ netlog' = Append(netlog,
                              Answered(Request("api", "shortener", res["api"].short_url),
                                       "response"))
          /\ shortResp' = resp
          /\ res' = [res EXCEPT !["api"] = Api_AfterGet("api", resp)]
  /\ UNCHANGED <<share_text, cleanVars, pipeVars>>

Api_FetchNet == Api_FetchFrom(NetPageResponses)

\* requests.get(clean_url, headers=get_headers(), verify=False) without a
\* timeout, to a host that does not answer: the call does not return
Api_FetchUnanswered ==
  /\ prog = "api" /\ pc = "fetch"
  /\ netlog' = Append(netlog, Answered(Request("api", "page", page_url(url)), "no_answer"))
  /\ pc' = "waiting"
  /\ UNCHANGED <<share_text, res, shortResp, cleanVars, prog, share_metas, save_images,
                 IN_VERCEL, url, response, result, loopVars, storeVars, ret>>

\* requests.get(url, headers=get_headers(), verify=False) of download_image
\* without a timeout, to a host that does not answer
DownloadUnanswered ==
  /\ pc = "download"
  /\ idx < Len(result.images)
  /\ netlog' = Append(netlog,
                      Answered(Request(prog, "image", result.images[idx + 1]), "no_answer"))
  /\ pc' = "waiting"
  /\ UNCHANGED <<share_text, res, shortResp, cleanVars, prog, share_metas, save_images,
                 IN_VERCEL, url, response, result, loopVars, storeVars, ret>>

\* xiaohongshu_api is given a share text with a short link
InitNet ==
  /\ prog = "api"
  /\ share_text = SHORT \o <<" ">> \o ID24
  /\ share_metas = <<>>
  /\ shortResp = Unset
  /\ save_images \in BOOLEAN
  /\ IN_VERCEL = TRUE
  /\ pc = "entry"
  /\ res = [i \in Impl |-> Frame("off")]
  /\ netlog = <<>>
  /\ clean_in = <<>>
  /\ clean_out = <<>>
  /\ url = <<>>
  /\ response = NoResponse
  /\ result = EmptyRecord
  /\ folder_name = <<>>
  /\ idx = 0
  /\ saved_images = <<>>
  /\ IMAGE_CACHE = <<>>
  /\ files = <<>>
  /\ ret = NoRet

NextNet ==
  \/ Strip("api")
  \/ Api_ShortMatch
  \/ Api_ShortSend
  \/ Api_FullMatch
  \/ Api_BareId
  \/ Api_StartResolve
  \/ Api_Resolved
  \/ Api_FetchNet
  \/ Api_FetchUnanswered
  \/ Api_BadStatus
  \/ Api_LoginCheck
  \/ Api_Extract
  \/ Download
  \/ DownloadUnanswered
  \/ DownloadsDone

SpecNet == InitNet /\ [][NextNet]_vars

\* the program is one sequential process: a step that can be taken is taken
SpecNetFair == SpecNet /\ WF_vars(NextNet)

\* ------------------------------------------------------------ properties

\* the steps an implementation entered, as a set
Tried(i) == Range(res[i].tried)

\* the place of a step in the order an implementation entered its steps, 0 when
\* the step was not entered
StepAt(i, step) ==
  IF step \in Tried(i)
  THEN CHOOSE k \in 1..Len(res[i].tried) : res[i].tried[k] = step
  ELSE 0

\* the shortener was asked and redirected: a 3xx status with a Location header
ShortRedirected ==
  /\ shortResp.kind = "response"
  /\ shortResp.status \in RedirectCodes
  /\ shortResp.location # <<>>

\* the shortener was asked and the request failed or was answered without a
\* redirect
ShortFailedOrNoRedirect ==
  \/ shortResp.kind = "exception"
  \/ shortResp.kind = "response"
       /\ (shortResp.status \notin RedirectCodes \/ shortResp.location = <<>>)

\* the text holds 24 alphanumeric characters in a row outside its short link
Run24Elsewhere(text) ==
  LET s == xhslink_pos(text)
      e == s + Len(xhslink_match(text)) - 1
  IN \E p \in 1..(Len(text) - 23) :
       /\ \A k \in p..(p + 23) : text[k] \in Alnum
       /\ p + 23 < s \/ p > e

\* what the full-link step, and after it the bare-ID step, produce on a text
FullThenBare(text) ==
  LET m == xiaohongshu_match(text) IN
  IF m # <<>> THEN clean_url(m)
  ELSE LET id == bare_id(text) IN
       IF id # <<>> THEN explore_url(id) ELSE <<>>

\* https://<host>/explore/<16, 24 or 32 alphanumeric characters>, no '?'
IsCanonicalURL(u) ==
  /\ startswith(u, HTTPS_SCHEME)
  /\ ~Contains(u, QMARK)
  /\ \E k \in (Len(HTTPS_SCHEME) + 2)..Len(u) :
       /\ StartsAt(u, k, <<"/">> \o EXPLORE)
       /\ \A j \in (Len(HTTPS_SCHEME) + 1)..(k - 1) : u[j] # "/"
       /\ LET id == From(u, k + 1 + Len(EXPLORE)) IN
          /\ Len(id) \in {16, 24, 32}
          /\ \A j \in 1..Len(id) : id[j] \in Alnum

\* the text is one run of 24 alphanumeric characters, which spells 'http'
\* in some letter case, and nothing else alphanumeric
OnlyRunIs24WithHttp(text) ==
  \E p \in 1..(Len(text) - 23) :
    /\ \A k \in 1..Len(text) : (text[k] \in Alnum) <=> (k \in p..(p + 23))
    /\ Contains(lower(SubSeq(text, p, p + 23)), <<"h","t","t","p">>)

\* C1: for a share text with a well-formed short link and, elsewhere, 24
\* alphanumeric characters in a row, extract_xhs_url of xiaohongshu_api and of
\* xiaohongshu_scraper issues the GET to the short link before it considers a
\* bare identifier, and when the shortener redirects it returns the cleaned
\* Location, not a URL built from the 24 characters.
C1_ShortLinkBranchTakenFirst ==
  \A i \in {"api", "scraper"} :
    (/\ res[i].pc = "done"
     /\ xhslink_match(res[i].text) # <<>>
     /\ Run24Elsewhere(res[i].text))
    => /\ "get" \in Tried(i)
       /\ "bare" \in Tried(i) => StepAt(i, "get") < StepAt(i, "bare")
       /\ ShortRedirected => res[i].url = clean_url(shortResp.location)

\* the order of the steps without the request, which only two of the
\* implementations make
StepOrder(i) == SelectSeq(res[i].tried, LAMBDA step : step # "get")

\* one sequence is the beginning of the other
SameOrder(a, b) ==
  \A k \in 1..(IF Len(a) < Len(b) THEN Len(a) ELSE Len(b)) : a[k] = b[k]

\* C2: the three extract_xhs_url implementations, given the same share text and
\* the same shortener response, try short link, full link and bare ID in the
\* same order and return the same result.
C2_UniformOrderAndResult ==
  (\A i \in Impl : res[i].pc = "done")
  => \A i, j \in Impl :
       /\ res[i].url = res[j].url
       /\ SameOrder(StepOrder(i), StepOrder(j))
       /\ res[i].tried[1] = "short"

C4_EveryRedirectCodeReturnsLocation ==
  (/\ res["api"].pc = "done"
   /\ "get" \in Tried("api")
   /\ ShortRedirected)
  => /\ res["api"].url = clean_url(shortResp.location)
     /\ res["api"].tried = <<"short", "get">>

\* C5: clean_url is idempotent on every URL that contains '/explore/':
\* applying it to its own result changes nothing.
C5_CleanUrlIdempotent ==
  (Len(clean_out) = 2 /\ Contains(clean_in, <<"/">> \o EXPLORE))
  => clean_out[2] = clean_out[1]

\* C5, its case: clean_url was applied twice to a URL with '/explore/', a
\* second 'explore/' and a '?', and the first application changed the URL.
C5_Witness_SeveralExploreAndQuery ==
  /\ Len(clean_out) = 2
  /\ Contains(clean_in, <<"/">> \o EXPLORE)
  /\ Len(split(clean_in, EXPLORE)) >= 3
  /\ Len(split(clean_in, QMARK)) >= 3
  /\ clean_out[1] # clean_in

\* C6: every non-empty result of extract_xhs_url, in each implementation and
\* whichever step produced it, is a CanonicalURL:
\* https://<host>/explore/<ContentIdentifier> without a query string.
C6_EveryResultIsCanonical ==
  \A i \in Impl :
    (res[i].pc = "done" /\ res[i].url # <<>>) => IsCanonicalURL(res[i].url)

\* C7: when the only alphanumeric run of the cleaned text is a 24-character
\* token that spells 'http' in some letter case, extract_xhs_url of
\* xiaohongshu_api builds no URL and returns the empty string.
C7_TokenWithHttpRejected ==
  (res["api"].pc = "done" /\ OnlyRunIs24WithHttp(res["api"].text))
  => res["api"].url = <<>>

\* the cleaned text holds no short link, no full link and no accepted bare
\* identifier
NoLinkIn(text) ==
  /\ xhslink_match(text) = <<>>
  /\ xiaohongshu_match(text) = <<>>
  /\ bare_id(text) = <<>>

\* the requests of one kind issued so far
Requests(kind) == { k \in 1..Len(netlog) : netlog[k].kind = kind }

\* C8: when the cleaned share text holds no short link, no full link and no
\* accepted bare identifier, extract_xhs_url returns the empty string and its
\* caller reports LinkNotFound; no request is issued, neither for the page nor
\* for an image, and nothing is stored.
C8_NoLinkReportsLinkNotFound ==
  \A p \in {"api", "firecrawl"} :
    (prog = p /\ res[p].pc = "done" /\ NoLinkIn(res[p].text))
    => /\ res[p].url = <<>>
       /\ netlog = <<>>
       /\ files = <<>> /\ IMAGE_CACHE = <<>>
       /\ pc \in {"resolving", "done"}
       /\ pc = "done" => ret = Err("link_not_found")

\* C8, its case: xiaohongshu_api was given a text whose only candidate
\* identifier is rejected, and its entry point has returned.
C8_Witness_RejectedCandidateOnly ==
  /\ prog = "api" /\ pc = "done"
  /\ res["api"].pc = "done"
  /\ NoLinkIn(res["api"].text)
  /\ finditer(res["api"].text, 1, 24) # <<>>
  /\ ret = Err("link_not_found")

\* no tag of the page is one extraction looks for
NoMatchingTags(metas) ==
  \A k \in 1..Len(metas) :
    /\ \A sub \in {OG_TITLE, DESCRIPTION, OG_IMAGE, NOTE_COMMENT, NOTE_COLLECT} :
         ~Mentions(metas[k], sub)
    /\ metas[k].name # KEYWORDS
    /\ metas[k].property # NOTE_LIKE

\* the record with empty title, body, images and hashtags and counters "0"
IsEmptyRecordWithZeroCounters(rec) ==
  /\ rec.title = <<>> /\ rec.content = <<>>
  /\ rec.images = <<>> /\ rec.hashtags = <<>>
  /\ rec.interaction_info = [likes |-> <<"0">>, comments |-> <<"0">>, collects |-> <<"0">>]

\* C9, as stated: for every page fetched whose HTML has no matching meta tags,
\* the record extracted is empty with counters "0" and xiaohongshu_api reports
\* NotExtractable.
C9_NoMetaTagsReportsNotExtractable ==
  (/\ prog = "api" /\ pc = "done"
   /\ response.kind = "response" /\ response.status = 200
   /\ NoMatchingTags(response.metas))
  => /\ IsEmptyRecordWithZeroCounters(extract_content(response.metas))
     /\ ret = Err("not_extractable")

\* C9, amended: for a page fetched with status 200 whose HTML has no matching
\* meta tags and neither login-wall phrase, the record extracted is empty with
\* counters "0", xiaohongshu_api reports NotExtractable, and no image is
\* requested.
C9_NoMetaTagsNotExtractableUnlessGated ==
  (/\ prog = "api" /\ pc = "done"
   /\ response.kind = "response" /\ response.status = 200
   /\ response.phrases = {}
   /\ NoMatchingTags(response.metas))
  => /\ IsEmptyRecordWithZeroCounters(result)
     /\ result = extract_content(response.metas)
     /\ ret = Err("not_extractable")
     /\ Requests("image") = {}

\* C9, its case: the page holds a meta tag, which extraction does not look for,
\* and no login-wall phrase, and xiaohongshu_api has returned.
C9_Witness_UnrelatedTagOnly ==
  /\ prog = "api" /\ pc = "done"
  /\ response.kind = "response" /\ response.status = 200
  /\ response.phrases = {}
  /\ response.metas # <<>>
  /\ NoMatchingTags(response.metas)
  /\ ret = Err("not_extractable")

\* C10: whenever the HTML fetched holds one of the two login-wall phrases, the
\* pipeline (xiaohongshu_api, firecrawl_xiaohongshu) reports LoginRequired,
\* never a success record or NotExtractable, whatever meta tags the page
\* carries, and no image is requested for that page.
C10_LoginPhraseReportsLoginRequired ==
  (/\ response.kind = "response" /\ response.status = 200
   /\ response.phrases # {})
  => /\ Requests("image") = {}
     /\ pc \notin {"extract", "download"}
     /\ pc = "done" => ret = Err("login_required")

\* the image requests issued so far, in order
ImageRequests == SelectSeq(netlog, LAMBDA r : r.kind = "image")

\* the values download_image returned for the first k image requests that were
\* answered 200, in the order of the requests
RECURSIVE SavedOf(_, _)
SavedOf(reqs, k) ==
  IF k = 0 THEN <<>>
  ELSE SavedOf(reqs, k - 1)
       \o (IF reqs[k].answer = "200" THEN <<SavedPath(reqs[k].url, k - 1, "200")>>
           ELSE <<>>)

PageMetas == IF response.kind = "response" THEN response.metas ELSE share_metas

\* C12: the images of a successful record come solely from extraction, that
\* is from the og:image tags of the page in document order, and no URL that is
\* not an image of the page is requested as an image.
C12_ImagesComeFromThePage ==
  /\ (pc = "done" /\ ret.tag = "success")
       => ret.record.images = ExtractImages(PageMetas)
  /\ \A k \in Requests("image") :
       \E j \in 1..Len(ExtractImages(PageMetas)) :
         netlog[k].url = ExtractImages(PageMetas)[j]

\* entries j and k of the log are sends of the same call
SameCall(j, k) ==
  /\ netlog[j].by = netlog[k].by
  /\ netlog[j].kind = netlog[k].kind
  /\ netlog[j].url = netlog[k].url

\* C13: every outbound call (shortener, page, image) is sent at most 3 times
\* in total, and it is sent again only after a response whose status is one
\* of 404, 429, 500, 502, 503, 504.
C13_AtMostThreeSendsResentOnStatusOnly ==
  \A k \in 1..Len(netlog) :
    /\ Cardinality({ j \in 1..Len(netlog) : SameCall(j, k) }) <= 3
    /\ (k > 1 /\ SameCall(k - 1, k)) => netlog[k - 1].answer = "status_forcelist"

\* C14: every outbound call carries a timeout, so that an invocation of the
\* pipeline always eventually returns to its caller, also when a host accepts
\* the connection and never answers.
C14_PipelineAlwaysReturns == <>(pc = "done")

\* what the claim gives a counter: the content of the first tag whose property
\* is the counter's, "0" when the page has no such tag
CounterOf(metas, property) ==
  IF \E k \in 1..Len(metas) : metas[k].property = property
  THEN metas[CHOOSE k \in 1..Len(metas) :
               /\ metas[k].property = property
               /\ \A j \in 1..(k - 1) : metas[j].property # property].content
  ELSE ZERO

\* C15: in every record extract_content returns, each of likes, comments and
\* collects is a string that comes from the counter's own tag: the content of
\* the tag (note_like, note_comment, note_collect) when the page has it, "0"
\* when it has not; never None.
C15_CountersComeFromTheirTags ==
  (response.kind = "response" /\ (pc = "download" \/ (pc = "done" /\ ret.tag = "success")))
  => /\ result.interaction_info.likes = CounterOf(response.metas, NOTE_LIKE)
     /\ result.interaction_info.comments = CounterOf(response.metas, NOTE_COMMENT)
     /\ result.interaction_info.collects = CounterOf(response.metas, NOTE_COLLECT)
     /\ \A c \in {"likes", "comments", "collects"} : result.interaction_info[c] # None

\* C16: the entries of the in-process image cache are idempotent: a write to
\* a key that is in the cache stores the bytes of the same source URL, so an
\* entry is never replaced by another image's content.
C16_CacheEntriesNeverChange ==
  [][\A key \in DOMAIN IMAGE_CACHE : IMAGE_CACHE'[key] = IMAGE_CACHE[key]]_vars

\* the named condition a returned value carries: the error dict of
\* xiaohongshu_api names one by its message; None names none
NamedCondition(r) ==
  CASE r.tag = "error" /\ r.error = "link_not_found" -> "LinkNotFound"
    [] r.tag = "error" /\ r.error = "exception" -> "TransportError"
    [] r.tag = "error" /\ r.error = "login_required" -> "LoginRequired"
    [] r.tag = "error" /\ r.error = "not_extractable" -> "NotExtractable"
    [] r.tag = "error" /\ r.error \in {"http_404", "http_403", "http_status"} ->
         "UpstreamHTTPError"
    [] OTHER -> "untagged"

\* the condition the run ended in, read from what happened to it
ConditionOfRun ==
  CASE response.kind = "none" -> "LinkNotFound"
    [] response.kind = "exception" -> "TransportError"
    [] response.status # 200 -> "UpstreamHTTPError"
    [] response.phrases # {} -> "LoginRequired"
    [] OTHER -> "NotExtractable"

\* C17: the entry point of xiaohongshu_api and of xiaohongshu_scraper ends
\* every run with a tagged result: a success record, or exactly the one named
\* error condition (LinkNotFound, TransportError, LoginRequired,
\* NotExtractable, UpstreamHTTPError) the run ended in, so that the caller can
\* tell the conditions apart
C17_EveryRunReturnsATaggedResult ==
  (prog \in {"api", "scraper"} /\ pc = "done")
    => \/ ret.tag = "success"
       \/ NamedCondition(ret) = ConditionOfRun
\* implementation i returned the URL its bare-ID step built
ReturnedByBareId(i) ==
  /\ res[i].pc = "done"
  /\ res[i].url # <<>>
  /\ res[i].tried # <<>>
  /\ res[i].tried[Len(res[i].tried)] = "bare"

\* the first accepted candidate of length n in text order, <<>> when none
FirstAccepted(text, n) ==
  IF AcceptedAt(text, n) = <<>> THEN <<>>
  ELSE SubSeq(text, AcceptedAt(text, n)[1], AcceptedAt(text, n)[1] + n - 1)

\* the candidate chosen when the lengths are tried in the order 16, 24, 32
PreferredShortestFirst(text) ==
  IF FirstAccepted(text, 16) # <<>> THEN FirstAccepted(text, 16)
  ELSE IF FirstAccepted(text, 24) # <<>> THEN FirstAccepted(text, 24)
  ELSE FirstAccepted(text, 32)

\* C18: the URL the bare-ID step of xiaohongshu_api returns is built from the
\* candidate preferred in the order 16, then 24, then 32 characters, and
\* within one length from the first accepted candidate in text order
C18_BareIdPrefers16Then24Then32 ==
  ReturnedByBareId("api")
    => res["api"].url = explore_url(PreferredShortestFirst(res["api"].text))
\* the candidate hit (start position and length) lies inside the match of
\* the short-link pattern in text
InsideShortLink(text, hit) ==
  /\ xhslink_pos(text) # 0
  /\ hit.pos >= xhslink_pos(text)
  /\ hit.pos + hit.len <= xhslink_pos(text) + Len(xhslink_match(text))

\* C19: when the share text holds a short link, whatever the shortener
\* answered (redirect, no redirect, failure), the identifier of a URL that the
\* bare-ID step of xiaohongshu_api returns is never a substring taken from
\* inside the matched short link
C19_BareIdNeverFromInsideShortLink ==
  (ReturnedByBareId("api") /\ res["api"].short_url # <<>>)
    => ~InsideShortLink(res["api"].text, bare_id_scan(res["api"].text))
\* the record extract_content of the running program makes of the page
ExtractedOfRun ==
  IF prog = "scraper" THEN scraper_extract_content(response.metas)
  ELSE extract_content(response.metas)

\* title, body and images are all empty
AllEmpty(rec) == rec.title = <<>> /\ rec.content = <<>> /\ rec.images = <<>>

\* the run reported that nothing could be extracted: the error dict of
\* xiaohongshu_api, the None of xiaohongshu_scraper
ReportsNotExtractable ==
  \/ ret = Err("not_extractable")
  \/ prog = "scraper" /\ ret = ReturnedNone

\* C20: a run that fetched the page with status 200 and no login phrase
\* reports NotExtractable exactly when title, body and images are all empty
\* after extraction, and returns a success record when at least one of them
\* is not empty
C20_NotExtractableExactlyWhenAllEmpty ==
  (pc = "done" /\ response.kind = "response" /\ response.status = 200
     /\ response.phrases = {})
    => IF AllEmpty(ExtractedOfRun) THEN ReportsNotExtractable
       ELSE ret.tag = "success"
\* str.endswith(suffix)
endswith(s, suffix) ==
  Len(suffix) <= Len(s) /\ SubSeq(s, Len(s) - Len(suffix) + 1, Len(s)) = suffix

\* the URL's last path segment: url.split('/')[-1]
LastSegment(image_url) == split(image_url, <<"/">>)[Len(split(image_url, <<"/">>))]

\* the names the image may be stored under when it is named after the URL's
\* last path segment (as it stands, or with '.jpg') for a URL that holds
\* 'xhscdn.com', and by its position otherwise
NamesAfterLastSegment(image_url, index) ==
  IF Contains(image_url, XHSCDN)
  THEN { LastSegment(image_url), LastSegment(image_url) \o <<".","j","p","g">> }
  ELSE { <<"i","m","a","g","e","_">> \o str(index) \o <<".","j","p","g">> }

\* how many of the first k image requests were answered 200
StoredAmong(reqs, k) == Len(SelectSeq(SubSeq(reqs, 1, k), LAMBDA r : r.answer = "200"))

\* C21: every image that download_image stored is stored under the URL's last
\* path segment when the URL holds the CDN host token xhscdn.com, and under
\* image_<index>.jpg, index being its position in the batch, otherwise
C21_StoredNameIsLastSegmentOrPositional ==
  \A k \in 1..Len(ImageRequests) :
    (ImageRequests[k].answer = "200" /\ StoredAmong(ImageRequests, k) <= Len(saved_images))
      => \E name \in NamesAfterLastSegment(ImageRequests[k].url, k - 1) :
           endswith(saved_images[StoredAmong(ImageRequests, k)], <<"/">> \o name)
\* this step is a download_image of xiaohongshu_api that ended in a status
\* other than 200 or in an exception
FailedDownloadStep ==
  /\ prog \in {"api", "firecrawl"}
  /\ pc = "download"
  /\ Len(netlog') = Len(netlog) + 1
  /\ netlog'[Len(netlog')].kind = "image"
  /\ netlog'[Len(netlog')].answer = "failed"

\* C22: a download that ends in a status other than 200 or in a transport
\* error leaves no trace: the loop goes on to the next image (nothing is
\* raised to the caller), IMAGE_CACHE and the files are unchanged, and
\* saved_images gets no entry
C22_FailedDownloadLeavesNoTrace ==
  [][FailedDownloadStep
       => /\ IMAGE_CACHE' = IMAGE_CACHE
          /\ files' = files
          /\ saved_images' = saved_images
          /\ idx' = idx + 1
          /\ pc' = "download"]_vars

\* C22, its case: in the memory mode an image was stored under its key, a
\* later download of the batch failed, and the cache holds the one entry
C22_Witness_FailedAfterStored ==
  /\ prog = "api" /\ IN_VERCEL /\ pc = "download"
  /\ Len(ImageRequests) = 2
  /\ ImageRequests[1].answer = "200"
  /\ ImageRequests[2].answer = "failed"
  /\ DOMAIN IMAGE_CACHE = { saved_images[1] }
  /\ Len(saved_images) = 1
RECURSIVE normpath(_, _, _)
\* os.path.normpath of a relative path, part by part from the k-th: '' and '.'
\* are dropped, '..' removes the part before it, or stays when there is none
normpath(parts, k, stack) ==
  IF k > Len(parts) THEN stack
  ELSE IF parts[k] \in { <<>>, <<".">> } THEN normpath(parts, k + 1, stack)
  ELSE IF parts[k] = <<".", ".">> /\ stack # <<>> /\ stack[Len(stack)] # <<".", ".">>
       THEN normpath(parts, k + 1, SubSeq(stack, 1, Len(stack) - 1))
  ELSE normpath(parts, k + 1, Append(stack, parts[k]))

\* the path names a file below IMAGES_DIR
InsideImageStore(path) ==
  /\ Len(normpath(split(path, <<"/">>), 1, <<>>)) >= 2
  /\ normpath(split(path, <<"/">>), 1, <<>>)[1] = IMAGES_DIR

\* C23: every file written by the download_image of xiaohongshu_api lies
\* inside the image store: its path, IMAGES_DIR/<folder>/<filename>, does not
\* resolve outside IMAGES_DIR, whatever title the folder name was made of and
\* whatever URL the file name was made of
C23_WrittenPathsStayInsideImagesDir ==
  prog \in {"api", "firecrawl"} => \A path \in DOMAIN files : InsideImageStore(path)
\* the start of the run of alphanumeric characters that position p lies in
RunStartOf(text, p) ==
  CHOOSE k \in RunStarts(text, 1) : k <= p /\ p < k + SpanLen(text, k, Alnum)

\* the start positions of the accepted candidates of length n
AcceptedStarts(text, n) == Range(AcceptedAt(text, n))

\* every accepted 32-character window shares its run with an accepted 24- or
\* 16-character window
ShorterWindowInSameRun(text) ==
  \A q \in AcceptedStarts(text, 32) :
    \E n \in {24, 16} : \E p \in AcceptedStarts(text, n) :
      RunStartOf(text, p) = RunStartOf(text, q)

====
